---- MODULE Spec2Model ----
(***************************************************************************)
(* Model of tensorflow/libs/octree_pad_op.cc: the OctreePad and            *)
(* OctreeDepad kernels (OctreePadBase, OctreePadOp, OctreeDepadOp).        *)
(*                                                                         *)
(* The OctreeParser (octree_parser.h) and the two copy kernels             *)
(* pad_forward_gpu / pad_backward_gpu (octree_util.h) are not part of the  *)
(* source file; they are modelled from the design document.                *)
(***************************************************************************)
EXTENDS Integers, Sequences, FiniteSets, TLC

\* ------------------------------------------------------------------ bounds
MaxNodes == 3
MaxChannel == 2
MaxDepth == 2

\* ------------------------------------------------------------- data model
Ops == {"pad", "depad"}
Threads == {"t1", "t2"}
MainThread == "t1"

\* A children array of length n: the sentinel -1 marks an empty node, the other
\* entries are a bijection onto 0..M-1.
IsChildren(a) ==
    LET ne == {i \in 1..Len(a) : a[i] >= 0}
    IN  /\ \A i \in ne : a[i] < Cardinality(ne)
        /\ \A i, j \in ne : a[i] = a[j] => i = j

ChildrenArrays ==
    UNION {{a \in [1..n -> -1..(n - 1)] : IsChildren(a)} : n \in 0..MaxNodes}

\* An octree of `depth` levels: the levels above the finest one are full (every
\* node non-empty), the finest level carries the adaptive children array.
Octrees == [depth : 1..MaxDepth, leaf : ChildrenArrays]
NoOctree == [depth |-> 0, leaf |-> <<>>]

FullLevel(d) == [i \in 1..d |-> i - 1]

\* OctreeParser queries.
has_depth(o, d) == d \in 1..o.depth
children_gpu(o, d) == IF d = o.depth THEN o.leaf ELSE FullLevel(d)
node_num(o, d) == Len(children_gpu(o, d))
node_num_nempty(o, d) ==
    Cardinality({i \in 1..Len(children_gpu(o, d)) : children_gpu(o, d)[i] >= 0})

\* A tensor of shape [1, C, H] with its flat row-major buffer.
Tensor(shape, data) == [shape |-> shape, data |-> data]
NoTensor == Tensor(<<>>, <<>>)
Fill(C, H, s) == Tensor(<<1, C, H>>, [j \in 1..(C * H) |-> s * j])
Unit(C, H, e) == Tensor(<<1, C, H>>, [j \in 1..(C * H) |-> IF j = e THEN 1 ELSE 0])
\* Feature tensors: the zero tensor and the one whose elements are all distinct
\* and non-zero, of every shape.
Scales == {0, 1}
Inputs == {Fill(C, H, s) : C \in 1..MaxChannel, H \in 0..MaxNodes, s \in Scales}
DepthAttrs == (0 - 1)..(MaxDepth + 1)

\* What an uninitialised or out-of-bounds float may hold: zero, or a value no
\* input element has.
Poison == MaxChannel * MaxNodes + 1
Garbage == {0, Poison}

VARIABLES attr, kernel, depth_, octree_, calls, crashed

vars == <<attr, kernel, depth_, octree_, calls, crashed>>

IdleCall ==
    [pc |-> "idle", op |-> "pad", in |-> NoTensor, octree |-> NoOctree,
     channel |-> 0, in_h |-> 0, out_h |-> 0, out |-> NoTensor,
     args |-> [Hy |-> 0, C |-> 0, Hx |-> 0, label |-> <<>>],
     pending |-> {}, nwrites |-> <<>>, from |-> NoTensor]

Init ==
    /\ attr \in DepthAttrs
    /\ kernel = [op \in Ops |-> "none"]
    /\ depth_ = [op \in Ops |-> 0]
    /\ octree_ = [op \in Ops |-> NoOctree]
    /\ calls = [t \in Threads |-> IdleCall]
    /\ crashed = FALSE

\* ------------------------------------------------- OctreePadBase constructor
\* Variants of the check, as a slip in it would have them.
DepthOk_Strict(d) == d > 1
DepthOk_Range(d) == d \in 1..MaxDepth
DepthOk(d) == d >= 1

Construct(op) ==
    /\ ~crashed
    /\ kernel[op] = "none"
    /\ depth_' = [depth_ EXCEPT ![op] = attr]
    /\ IF DepthOk(attr)
       THEN /\ kernel' = [kernel EXCEPT ![op] = "ok"]
            /\ crashed' = crashed
       ELSE /\ kernel' = [kernel EXCEPT ![op] = "failed"]
            /\ crashed' = TRUE
    /\ UNCHANGED <<attr, octree_, calls>>

\* ------------------------------------------------------------ copy kernels
\* The label a unit reads for dense slot i: children(d)[i], or anything when the
\* array handed to the kernel is shorter than the range it is run over.
LabelSet(a, i) == IF i < Len(a.label) THEN {a.label[i + 1]} ELSE (0 - 1)..a.Hx

\* A read of flat element j (0-based) of a buffer.
ReadAt(data, j, g) == IF j >= 0 /\ j < Len(data) THEN data[j + 1] ELSE g

\* pad_forward_gpu, the unit of work of dense slot i: every channel of slot i of
\* Y is zero for the sentinel and the compact slot's value otherwise.
pad_forward_unit(Y, a, X, i, lab, g) ==
    [j \in 1..Len(Y) |->
        IF (j - 1) % a.Hy = i /\ (j - 1) \div a.Hy < a.C
        THEN IF lab < 0 THEN 0 ELSE ReadAt(X, ((j - 1) \div a.Hy) * a.Hx + lab, g)
        ELSE Y[j]]

pad_forward_writes(Y, a, i, lab) ==
    {j \in 1..Len(Y) : (j - 1) % a.Hy = i /\ (j - 1) \div a.Hy < a.C}

\* pad_backward_gpu, the unit of work of dense slot i: a filtered copy, slot i
\* of Y goes to compact slot children(d)[i] of X unless that is the sentinel.
pad_backward_writes(X, a, i, lab) ==
    {j \in 1..Len(X) : lab >= 0 /\ \E c \in 0..(a.C - 1) : j - 1 = c * a.Hx + lab}

pad_backward_unit(X, a, Y, i, lab, g) ==
    [j \in 1..Len(X) |->
        IF j \in pad_backward_writes(X, a, i, lab)
        THEN LET c == CHOOSE c \in 0..(a.C - 1) : j - 1 = c * a.Hx + lab
             IN  ReadAt(Y, c * a.Hy + i, g)
        ELSE X[j]]

\* Whether the unit of dense slot i reads or writes outside a buffer.
UnitFaults(op, a, inLen, outLen, i) ==
    IF i >= Len(a.label) THEN TRUE
    ELSE \E c \in 0..(a.C - 1) :
            LET lab == a.label[i + 1]
            IN  IF op = "pad"
                THEN c * a.Hy + i >= outLen \/ (lab >= 0 /\ c * a.Hx + lab >= inLen)
                ELSE c * a.Hy + i >= inLen \/ (lab >= 0 /\ c * a.Hx + lab >= outLen)

\* The whole kernel run in index order from slot i on.
RECURSIVE RunFrom(_, _, _, _, _)
RunFrom(op, out, a, inp, i) ==
    IF i >= a.Hy THEN out
    ELSE LET lab == CHOOSE l \in LabelSet(a, i) : TRUE
             g   == CHOOSE x \in Garbage : TRUE
         IN  CHOOSE r \in {RunFrom(op, u, a, inp, i + 1) :
                              u \in {IF op = "pad"
                                     THEN pad_forward_unit(out, a, inp, i, lab, g) \o <<>>
                                     ELSE pad_backward_unit(out, a, inp, i, lab, g) \o <<>>}} : TRUE

\* ---------------------------------------------------- the lines of Compute
\* OctreePadBase::set_octree_parser.
set_octree_parser(op, o) == [octree_ EXCEPT ![op] = o]

\* CHECK_EQ of the input's node axis against the octree.
PadCheck_Skipped(o, depth, btm_h) == TRUE
PadCheck(o, depth, btm_h) == node_num_nempty(o, depth) = btm_h
DepadCheck(o, depth, top_h) == node_num(o, depth) = top_h

\* The output's node axis.
PadTopH_Nempty(o, depth) == node_num_nempty(o, depth)
DepadBtmH_NodeNum(o, depth) == node_num(o, depth)
PadTopH(o, depth) == node_num(o, depth)
DepadBtmH(o, depth) == node_num_nempty(o, depth)

\* The output's shape: the input's with dimension 2 replaced.
OutShape_Dim1(in_shape, out_h) == [in_shape EXCEPT ![2] = out_h]
OutShape(in_shape, out_h) == [in_shape EXCEPT ![3] = out_h]

\* The arguments of the kernel launch.
PadLaunch_SwapH(top_h, channel, btm_h, label) ==
    [Hy |-> btm_h, C |-> channel, Hx |-> top_h, label |-> label]
DepadLaunch_SwapH(btm_h, channel, top_h, label) ==
    [Hy |-> btm_h, C |-> channel, Hx |-> top_h, label |-> label]
DepadLaunch_OneChannel(btm_h, channel, top_h, label) ==
    [Hy |-> top_h, C |-> 1, Hx |-> btm_h, label |-> label]
PadLaunch(top_h, channel, btm_h, label) ==
    [Hy |-> top_h, C |-> channel, Hx |-> btm_h, label |-> label]
DepadLaunch(btm_h, channel, top_h, label) ==
    [Hy |-> top_h, C |-> channel, Hx |-> btm_h, label |-> label]

\* The output of a whole OctreePadOp::Compute / OctreeDepadOp::Compute that
\* passes its check, with the kernel's units run in index order.
PadOf(x, o, depth) ==
    CHOOSE r \in {Tensor(shape, RunFrom("pad", [j \in 1..(shape[1] * shape[2] * shape[3]) |-> Poison],
                                        a, xd, 0)) :
                     shape \in {OutShape(x.shape, PadTopH(o, depth))},
                     a \in {PadLaunch(PadTopH(o, depth), x.shape[2], x.shape[3],
                                      children_gpu(o, depth))},
                     xd \in {x.data}} : TRUE

DepadOf(y, o, depth) ==
    CHOOSE r \in {Tensor(shape, RunFrom("depad", [j \in 1..(shape[1] * shape[2] * shape[3]) |-> Poison],
                                        a, yd, 0)) :
                     shape \in {OutShape(y.shape, DepadBtmH(o, depth))},
                     a \in {DepadLaunch(DepadBtmH(o, depth), y.shape[2], y.shape[3],
                                        children_gpu(o, depth))},
                     yd \in {y.data}} : TRUE

CanBegin(t) == calls[t].pc \in {"idle"}

\* Compute up to the shape check: bind the octree, read the input's shape.
ComputeBegin(t, xs, os) ==
    /\ ~crashed
    /\ CanBegin(t)
    /\ \E op \in {p \in Ops : kernel[p] = "ok"}, x \in xs, o \in os :
          /\ octree_' = set_octree_parser(op, o)
          /\ calls' = [calls EXCEPT ![t] =
                          [IdleCall EXCEPT !.pc = "check", !.op = op, !.in = x,
                                           !.octree = o, !.channel = x.shape[2],
                                           !.in_h = x.shape[3]]]
    /\ UNCHANGED <<attr, kernel, depth_, crashed>>

\* The backward (or forward) pass of a finished call: the other operator on
\* that call's output, with the same octree.
ComputeChain(t) ==
    LET k  == calls[t]
        op == IF k.op = "pad" THEN "depad" ELSE "pad"
    IN  /\ ~crashed
        /\ k.pc = "done"
        /\ kernel[op] = "ok"
        /\ octree_' = set_octree_parser(op, k.octree)
        /\ calls' = [calls EXCEPT ![t] =
                        [IdleCall EXCEPT !.pc = "check", !.op = op, !.in = k.out,
                                         !.octree = k.octree,
                                         !.channel = k.out.shape[2],
                                         !.in_h = k.out.shape[3],
                                         !.from = k.in]]
        /\ UNCHANGED <<attr, kernel, depth_, crashed>>

\* The shape check.
ComputeCheck(t) ==
    LET k     == calls[t]
        depth == depth_[k.op]
        o     == octree_[k.op]
    IN  /\ ~crashed
        /\ k.pc = "check"
        /\ IF ~has_depth(o, depth)
           THEN /\ calls' = [calls EXCEPT ![t].pc = "topology_error"]
                /\ crashed' = crashed
           ELSE IF (IF k.op = "pad" THEN PadCheck(o, depth, k.in_h)
                                    ELSE DepadCheck(o, depth, k.in_h))
           THEN /\ calls' = [calls EXCEPT ![t].pc = "alloc"]
                /\ crashed' = crashed
           ELSE /\ calls' = [calls EXCEPT ![t].pc = "aborted"]
                /\ crashed' = TRUE
        /\ UNCHANGED <<attr, kernel, depth_, octree_>>

\* The output's shape and its allocation (uninitialised).
ComputeAlloc(t) ==
    LET k     == calls[t]
        depth == depth_[k.op]
        o     == octree_[k.op]
    IN  /\ ~crashed
        /\ k.pc = "alloc"
        /\ IF ~has_depth(o, depth)
           THEN calls' = [calls EXCEPT ![t].pc = "topology_error"]
           ELSE \E g \in Garbage :
                   LET out_h == IF k.op = "pad" THEN PadTopH(o, depth)
                                                ELSE DepadBtmH(o, depth)
                       shape == OutShape(k.in.shape, out_h)
                       n     == shape[1] * shape[2] * shape[3]
                   IN  calls' = [calls EXCEPT ![t].pc = "launch",
                                              ![t].out_h = out_h,
                                              ![t].out = Tensor(shape, [j \in 1..n |-> g]),
                                              ![t].nwrites = [j \in 1..n |-> 0]]
        /\ UNCHANGED <<attr, kernel, depth_, octree_, crashed>>

\* The kernel launch: one unit of work per dense slot.
ComputeLaunch(t) ==
    LET k     == calls[t]
        depth == depth_[k.op]
        o     == octree_[k.op]
    IN  /\ ~crashed
        /\ k.pc = "launch"
        /\ IF ~has_depth(o, depth)
           THEN calls' = [calls EXCEPT ![t].pc = "topology_error"]
           ELSE LET a == IF k.op = "pad"
                         THEN PadLaunch(k.out_h, k.channel, k.in_h, children_gpu(o, depth))
                         ELSE DepadLaunch(k.out_h, k.channel, k.in_h, children_gpu(o, depth))
                IN  calls' = [calls EXCEPT ![t].pc = "kernel", ![t].args = a,
                                           ![t].pending = 0..(a.Hy - 1)]
        /\ UNCHANGED <<attr, kernel, depth_, octree_, crashed>>

\* One unit of work of the running kernel.
KernelUnit(t, i) ==
    LET k == calls[t]
        a == k.args
    IN  /\ ~crashed
        /\ k.pc = "kernel"
        /\ i \in k.pending
        /\ \E lab \in LabelSet(a, i), g \in Garbage :
              LET data == IF k.op = "pad"
                          THEN pad_forward_unit(k.out.data, a, k.in.data, i, lab, g)
                          ELSE pad_backward_unit(k.out.data, a, k.in.data, i, lab, g)
                  w    == IF k.op = "pad"
                          THEN pad_forward_writes(k.out.data, a, i, lab)
                          ELSE pad_backward_writes(k.out.data, a, i, lab)
              IN  calls' = [calls EXCEPT ![t].out.data = data,
                                         ![t].pending = k.pending \ {i},
                                         ![t].nwrites = [j \in 1..Len(k.nwrites) |->
                                              IF j \in w THEN k.nwrites[j] + 1
                                                         ELSE k.nwrites[j]]]
        /\ UNCHANGED <<attr, kernel, depth_, octree_, crashed>>

\* The kernel has run every unit: Compute's output is complete.
KernelDone(t) ==
    /\ ~crashed
    /\ calls[t].pc = "kernel"
    /\ calls[t].pending = {}
    /\ calls' = [calls EXCEPT ![t].pc = "done"]
    /\ UNCHANGED <<attr, kernel, depth_, octree_, crashed>>

\* A unit that reads or writes outside a buffer may also end the process.
KernelFault(t) ==
    LET k == calls[t]
    IN  /\ ~crashed
        /\ k.pc = "kernel"
        /\ \E i \in k.pending :
              UnitFaults(k.op, k.args, Len(k.in.data), Len(k.out.data), i)
        /\ crashed' = TRUE
        /\ UNCHANGED <<attr, kernel, depth_, octree_, calls>>

Step(t) ==
    \/ ComputeCheck(t)
    \/ ComputeAlloc(t)
    \/ ComputeLaunch(t)
    \/ \E i \in calls[t].pending : KernelUnit(t, i)
    \/ KernelDone(t)

\* Calls are made one at a time (the executor runs the node synchronously).
Next ==
    \/ \E op \in Ops : Construct(op)
    \/ ComputeBegin(MainThread, Inputs, Octrees)
    \/ ComputeChain(MainThread)
    \/ Step(MainThread)

Spec == Init /\ [][Next]_vars

\* Compute of one kernel instance entered by two executor threads at once, each
\* with its own feature tensor and octree.
ConcInputs == {Fill(1, H, 1) : H \in 0..(MaxNodes - 1)}
ConcOctrees == {o \in Octrees : o.depth = MaxDepth /\ Len(o.leaf) < MaxNodes}

NextConc ==
    \/ \E op \in Ops : Construct(op)
    \/ \E t \in Threads : ComputeBegin(t, ConcInputs, ConcOctrees)
    \/ \E t \in Threads : Step(t)
    \/ \E t \in Threads : KernelFault(t)

SpecConc == Init /\ [][NextConc]_vars

\* ----------------------------------------------------------------- claims
\* The call's own topology: the level its operator's depth selects in the octree
\* the call was given.
OwnDepth(k) == depth_[k.op]
OwnChildren(k) == children_gpu(k.octree, OwnDepth(k))
OwnN(k) == node_num(k.octree, OwnDepth(k))
OwnM(k) == node_num_nempty(k.octree, OwnDepth(k))
Allocated(k) == k.pc \in {"launch", "kernel", "done"}

\* C1: a finished pad call's output holds, for every dense slot i and channel
\* c, exactly 0 where children(d)[i] is the sentinel and the input's element
\* (c, children(d)[i]) otherwise; with M(d) = 0 the whole output is zero.
C1_PadContract ==
    \A t \in Threads :
        LET k  == calls[t]
            ch == OwnChildren(k)
            N  == Len(ch)
            M  == k.in.shape[3]
        IN  (k.pc = "done" /\ k.op = "pad") =>
               /\ Len(k.out.data) = k.in.shape[2] * N
               /\ \A c \in 0..(k.in.shape[2] - 1), i \in 0..(N - 1) :
                     k.out.data[c * N + i + 1] =
                        IF ch[i + 1] < 0 THEN 0 ELSE k.in.data[c * M + ch[i + 1] + 1]
               /\ (OwnM(k) = 0 => \A j \in 1..Len(k.out.data) : k.out.data[j] = 0)

C1_Witness ==
    \E t \in Threads :
        LET k == calls[t]
        IN  /\ k.pc = "done" /\ k.op = "pad" /\ k.from = NoTensor
            /\ k.in.shape[2] = 2
            /\ \E i, j \in 1..Len(OwnChildren(k)) :
                  OwnChildren(k)[i] < 0 /\ OwnChildren(k)[j] > 0
            /\ \A j \in 1..Len(k.in.data) : k.in.data[j] # 0

\* C2: a finished depad call's output holds, for every compact slot r and
\* channel c, the input's element (c, i) of the one dense slot i with
\* children(d)[i] = r; nothing comes from a slot whose entry is the sentinel.
Distinct(data) == \A i, j \in 1..Len(data) : data[i] = data[j] => i = j

C2_DepadContract ==
    \A t \in Threads :
        LET k  == calls[t]
            ch == OwnChildren(k)
            N  == Len(ch)
            M  == OwnM(k)
        IN  (k.pc = "done" /\ k.op = "depad") =>
               /\ Len(k.out.data) = k.in.shape[2] * M
               /\ \A c \in 0..(k.in.shape[2] - 1), r \in 0..(M - 1) :
                     /\ Cardinality({i \in 1..N : ch[i] = r}) = 1
                     /\ \A i \in 1..N :
                           ch[i] = r => k.out.data[c * M + r + 1] = k.in.data[c * N + i]
               /\ Distinct(k.in.data) =>
                     \A j \in 1..Len(k.out.data), c \in 0..(k.in.shape[2] - 1), i \in 1..N :
                        ch[i] < 0 => k.out.data[j] # k.in.data[c * N + i]

C2_Witness ==
    \E t \in Threads :
        LET k == calls[t]
        IN  /\ k.pc = "done" /\ k.op = "depad" /\ k.from = NoTensor
            /\ k.in.shape[2] = 2
            /\ OwnM(k) = 2
            /\ \E i \in 1..Len(OwnChildren(k)) : OwnChildren(k)[i] < 0
            /\ OwnChildren(k)[1] = 1
            /\ \A j \in 1..Len(k.in.data) : k.in.data[j] # 0

\* C3: depad of the output of pad, with the same depth and octree, gives back
\* pad's input: the same shape and the same elements.
C3_RoundTrip ==
    \A t \in Threads :
        LET k == calls[t]
        IN  (k.pc = "done" /\ k.op = "depad" /\ k.from # NoTensor) => k.out = k.from

C3_Witness ==
    \E t \in Threads :
        LET k == calls[t]
        IN  /\ k.pc = "done" /\ k.op = "depad" /\ k.from # NoTensor
            /\ k.out.shape = <<1, 2, 2>>
            /\ \A j \in 1..Len(k.out.data) : k.out.data[j] # 0
            /\ \E i \in 1..Len(OwnChildren(k)) : OwnChildren(k)[i] < 0
            /\ \E i \in 1..Len(k.in.data) : k.in.data[i] = 0

\* C4: a call whose input node axis differs from the length its octree gives
\* (M(d) for pad, N(d) for depad) stops at the check: the process is ended, no
\* output was allocated and no element was written.
Expected(k) == IF k.op = "pad" THEN OwnM(k) ELSE OwnN(k)
Mismatch(k) == has_depth(k.octree, OwnDepth(k)) /\ k.in_h # Expected(k)

C4_ShapeMismatchFailFast ==
    \A t \in Threads :
        LET k == calls[t]
        IN  /\ (k.pc \notin {"idle", "check"} /\ Mismatch(k)) =>
                  /\ k.pc = "aborted"
                  /\ crashed
                  /\ k.out = NoTensor
                  /\ k.nwrites = <<>>
            /\ k.pc = "aborted" => Mismatch(k)

C4_Witness ==
    \E t \in Threads :
        LET k == calls[t]
        IN  k.pc = "aborted" /\ k.op = "pad" /\ k.in_h = 3 /\ OwnM(k) = 2 /\ k.out = NoTensor

Queried(k) == k.pc \notin {"idle", "check"}

C6_Original ==
    /\ \A op \in Ops : kernel[op] = "ok" => depth_[op] \in 1..MaxDepth
    /\ \A t \in Threads :
          Queried(calls[t]) => has_depth(calls[t].octree, OwnDepth(calls[t]))

\* C6 as amended: construction rejects exactly the depths below 1; a depth above
\* what a call's octree encodes is accepted at construction and met by that
\* call's topology queries, whose failure ends the call and not the process.
C6_DepthAboveMaxIsPerCall ==
    /\ \A op \in Ops : kernel[op] # "none" => (kernel[op] = "failed" <=> attr < 1)
    /\ \A t \in Threads :
          LET k == calls[t]
          IN  /\ Queried(k) => OwnDepth(k) >= 1
              /\ Queried(k) =>
                    (k.pc = "topology_error" <=> ~has_depth(k.octree, OwnDepth(k)))
              /\ k.pc = "topology_error" => (~crashed /\ k.out = NoTensor)

C6_Witness ==
    \E t \in Threads :
        /\ calls[t].pc = "topology_error"
        /\ attr = MaxDepth + 1
        /\ kernel[calls[t].op] = "ok"

\* C7: an allocated output has the input's batch and channel lengths and the
\* node axis N(d) for pad, M(d) for depad (0 when M(d) = 0).
C7_OutputShape ==
    \A t \in Threads :
        LET k == calls[t]
        IN  Allocated(k) =>
               /\ Len(k.out.shape) = 3
               /\ k.out.shape[1] = k.in.shape[1]
               /\ k.out.shape[2] = k.in.shape[2]
               /\ k.out.shape[3] = (IF k.op = "pad" THEN OwnN(k) ELSE OwnM(k))
               /\ Len(k.out.data) = k.out.shape[1] * k.out.shape[2] * k.out.shape[3]

C7_Witness ==
    \E t \in Threads :
        LET k == calls[t]
        IN  /\ k.pc = "done" /\ k.op = "depad"
            /\ k.in.shape = <<1, 2, 3>>
            /\ k.out.shape = <<1, 2, 0>>

\* C8: pad and depad of one depth and octree are adjoint and additive:
\* <pad x, y> = <x, depad y>, pad(x + x2) = pad x + pad x2 and
\* depad(y + y2) = depad y + depad y2.
RECURSIVE DotFrom(_, _, _)
DotFrom(a, b, j) == IF j > Len(a) THEN 0 ELSE a[j] * b[j] + DotFrom(a, b, j + 1)
Dot(a, b) == DotFrom(a, b, 1)
Plus(a, b) == Tensor(a.shape, [j \in 1..Len(a.data) |-> a.data[j] + b.data[j]])
Probes(C, H) == {Fill(C, H, s) : s \in Scales} \cup {Unit(C, H, e) : e \in 1..(C * H)}

C8_Duality ==
    \A t \in Threads :
        LET k == calls[t]
            o == k.octree
            d == OwnDepth(k)
            C == k.in.shape[2]
        IN  /\ (k.pc = "done" /\ k.op = "pad") =>
                  /\ \A y \in Probes(C, OwnN(k)) :
                        \A dy \in {DepadOf(y, o, d)} :
                           Dot(k.out.data, y.data) = Dot(k.in.data, dy.data)
                  /\ \A x2 \in Probes(C, OwnM(k)) :
                        \A sum \in {Plus(k.in, x2)} :
                           PadOf(sum, o, d) = Plus(k.out, PadOf(x2, o, d))
            /\ (k.pc = "done" /\ k.op = "depad") =>
                  /\ \A x \in Probes(C, OwnM(k)) :
                        \A px \in {PadOf(x, o, d)} :
                           Dot(px.data, k.in.data) = Dot(x.data, k.out.data)
                  /\ \A y2 \in Probes(C, OwnN(k)) :
                        \A sum \in {Plus(k.in, y2)} :
                           DepadOf(sum, o, d) = Plus(k.out, DepadOf(y2, o, d))

C8_Witness ==
    \E t \in Threads :
        LET k == calls[t]
        IN  /\ k.pc = "done" /\ k.op = "pad" /\ k.from = NoTensor
            /\ k.in.shape = <<1, 2, 2>>
            /\ OwnN(k) = 3
            /\ \A j \in 1..Len(k.in.data) : k.in.data[j] # 0

\* C9: every call's check, output length, children array and output come from
\* the octree and the tensor passed to that call, whatever other calls the
\* instance is running.
C9_Stateless ==
    \A t \in Threads :
        LET k == calls[t]
        IN  /\ k.pc = "aborted" => Mismatch(k)
            /\ k.pc = "topology_error" => ~has_depth(k.octree, OwnDepth(k))
            /\ k.pc \in {"alloc", "launch", "kernel", "done"} =>
                  (has_depth(k.octree, OwnDepth(k)) /\ k.in_h = Expected(k))
            /\ Allocated(k) => k.out_h = (IF k.op = "pad" THEN OwnN(k) ELSE OwnM(k))
            /\ k.pc \in {"kernel", "done"} => k.args.label = OwnChildren(k)
            /\ k.pc = "done" =>
                  k.out = (IF k.op = "pad" THEN PadOf(k.in, k.octree, OwnDepth(k))
                                           ELSE DepadOf(k.in, k.octree, OwnDepth(k)))

\* C10: the units of a pad kernel, run in any order, write every output element
\* of every dense slot exactly once and no element twice, leave the input and
\* the children array as they were, and end with the output of the run in
\* index order.
SlotOf(k, j) == (j - 1) % k.args.Hy

C10_WriteOnce ==
    \A t \in Threads :
        LET k == calls[t]
        IN  (k.op = "pad" /\ k.pc \in {"kernel", "done"}) =>
               /\ Len(k.nwrites) = k.in.shape[2] * OwnN(k)
               /\ k.args.Hy = OwnN(k)
               /\ k.args.label = OwnChildren(k)
               /\ \A j \in 1..Len(k.nwrites) :
                     k.nwrites[j] = (IF SlotOf(k, j) \in k.pending THEN 0 ELSE 1)
               /\ k.pc = "done" =>
                     /\ k.pending = {}
                     /\ k.out = PadOf(k.in, k.octree, OwnDepth(k))

C10_ReadOnly ==
    \A t \in Threads :
        (calls[t].pc = "kernel" /\ calls[t].op = "pad") =>
            /\ calls'[t].in = calls[t].in
            /\ calls'[t].args = calls[t].args
            /\ calls'[t].octree = calls[t].octree
            /\ octree_' = octree_

C10_ParallelScatter == [](C10_WriteOnce) /\ [][C10_ReadOnly]_vars

C10_Witness ==
    \E t \in Threads :
        LET k == calls[t]
        IN  /\ k.op = "pad" /\ k.pc = "kernel"
            /\ k.args.Hy = 3
            /\ k.pending = {0}
            /\ k.in.shape[2] = 2
            /\ \E j \in 1..Len(k.out.data) : k.nwrites[j] = 1 /\ k.out.data[j] \notin Garbage
====
